---- MODULE Spec2Model ----
(***************************************************************************)
(* A model of the request scanner: the range scan (linear and checkpoint   *)
(* strategies), the audit batch and the status refresh of app.py, with the *)
(* remote access client of audit_client.py.                                *)
(*                                                                         *)
(* The remote site and the webhook are the environment.  Every remote call *)
(* and every notification draws its outcome from a small set; the number   *)
(* of anomalous outcomes (transport failures, malformed payloads, failed   *)
(* notifications) in one job is bounded by MaxFaults and the number of     *)
(* "valid" answers by MaxValid.  `trace` is the observable history of one  *)
(* job: remote calls, webhook events and session closes, in program order. *)
(***************************************************************************)
EXTENDS Integers, Sequences, FiniteSets, TLC

VARIABLES cfg, pc, i, j, idx, stats, s, sessions, trace, faults, valids, JOBS

vars == <<cfg, pc, i, j, idx, stats, s, sessions, trace, faults, valids, JOBS>>

\* ------------------------------------------------------------------ bounds

\* max_retries of a request is 0 or MaxRetries
MaxRetries == 1
\* anomalous environment outcomes injected in one job
MaxFaults == 1
\* "valid" answers the remote site gives in one job
MaxValid == 2
\* ids above MaxCursor are outside the modelled window: all invalid, no failure
MaxCursor == 51
\* length of the id list of an audit batch and of the item list of a refresh
MaxItems == 2

\* --------------------------------------------------------- JSON-like values

NoneV == [t |-> "null"]
JBool(b) == [t |-> "bool", v |-> b]
JNum(n) == [t |-> "num", v |-> n]
JStr(chars) == [t |-> "str", v |-> chars]
JList(items) == [t |-> "list", v |-> items]
\* a JSON object with the single key "d" (the ASP.NET envelope)
JEnv(payload) == [t |-> "env", v |-> payload]
\* a JSON object without the key "d": a record of fields
JObj(fields) == [t |-> "obj", v |-> fields]

RECURSIVE Concat(_)
Concat(chars) == IF chars = <<>> THEN "" ELSE Head(chars) \o Concat(Tail(chars))

IsSpace(c) == c \in {" ", "\t", "\n"}

RECURSIVE LStrip(_)
LStrip(chars) ==
    IF chars /= <<>> /\ IsSpace(Head(chars)) THEN LStrip(Tail(chars)) ELSE chars

RECURSIVE RStrip(_)
RStrip(chars) ==
    IF chars /= <<>> /\ IsSpace(chars[Len(chars)])
    THEN RStrip(SubSeq(chars, 1, Len(chars) - 1))
    ELSE chars

\* str.strip()
Strip(chars) == RStrip(LStrip(chars))

LowerChar(c) ==
    CASE c = "A" -> "a" [] c = "B" -> "b" [] c = "E" -> "e" [] c = "I" -> "i"
      [] c = "K" -> "k" [] c = "N" -> "n" [] c = "O" -> "o" [] c = "R" -> "r"
      [] c = "S" -> "s" [] c = "T" -> "t" [] c = "U" -> "u" [] c = "Y" -> "y"
      [] OTHER -> c

\* str.lower()
Lower(chars) == [k \in 1..Len(chars) |-> LowerChar(chars[k])]

StartsWith(chars, prefix) ==
    Len(chars) >= Len(prefix) /\ SubSeq(chars, 1, Len(prefix)) = prefix

EndsWith(chars, suffix) ==
    Len(chars) >= Len(suffix)
    /\ SubSeq(chars, Len(chars) - Len(suffix) + 1, Len(chars)) = suffix

\* json.loads on the stringified payloads the model uses; "fail" when the text
\* is not JSON
JsonLoads(chars) ==
    CASE chars = <<"[", "]">> -> JList(<<>>)
      [] chars = <<"{", "}">> -> JObj(<<>>)
      [] chars = <<"[", "1", "]">> -> JList(<<JNum(1)>>)
      [] chars = <<"{", "\"", "x", "\"", ":", "1", "}">> -> JObj([x |-> JNum(1)])
      [] chars = <<"{", "\"", "d", "\"", ":", "1", "}">> -> JEnv(JNum(1))
      [] OTHER -> [t |-> "fail"]

\* _unwrap_d applied again to whatever it finds, level after level
RECURSIVE _unwrap_all(_)
_unwrap_all(obj) ==
    IF obj.t = "env"
    THEN LET payload == obj.v IN
         IF payload.t = "str"
         THEN LET tt == Strip(payload.v) IN
              IF (StartsWith(tt, <<"{">>) /\ EndsWith(tt, <<"}">>))
                 \/ (StartsWith(tt, <<"[">>) /\ EndsWith(tt, <<"]">>))
              THEN IF JsonLoads(tt).t = "fail" THEN payload ELSE _unwrap_all(JsonLoads(tt))
              ELSE payload
         ELSE _unwrap_all(payload)
    ELSE obj

_unwrap_d(obj) ==
    IF obj.t = "env"
    THEN LET payload == obj.v IN
         IF payload.t = "str"
         THEN LET tt == Strip(payload.v) IN
              IF (StartsWith(tt, <<"{">>) /\ EndsWith(tt, <<"}">>))
                 \/ (StartsWith(tt, <<"[">>) /\ EndsWith(tt, <<"]">>))
              THEN IF JsonLoads(tt).t = "fail" THEN payload ELSE JsonLoads(tt)
              ELSE payload
         ELSE payload
    ELSE obj

\* bool(x) of a decoded JSON value
Truthy(x) ==
    CASE x.t = "null" -> FALSE
      [] x.t = "bool" -> x.v
      [] x.t = "num" -> x.v /= 0
      [] x.t = "str" -> x.v /= <<>>
      [] x.t = "list" -> x.v /= <<>>
      [] x.t = "obj" -> DOMAIN x.v /= {}
      [] OTHER -> TRUE

TruthyStrings ==
    { <<"t", "r", "u", "e">>, <<"1">>, <<"s", "i">>, <<"s", "í">>, <<"o", "k">>,
      <<"y", "e", "s">>, <<"y">> }

\* the validity decision of validate_only
ValidFromRaw(raw) ==
    IF raw.t = "str" THEN Lower(Strip(raw.v)) \in TruthyStrings ELSE Truthy(raw)

\* ------------------------------------------------------------ site registry

Operators == {"afinia", "aire"}

get_site(op) ==
    LET base == IF op = "aire" THEN "https://servicios.air-e.com"
                ELSE "https://servicios.energiacaribemar.co"
        root == IF op = "aire" THEN "/CREG174" ELSE "/Autogeneracion"
    IN [base |-> base,
        root_path |-> root,
        home_referer |-> base \o root \o "/",
        form_page |-> root \o "/form/WFSolicitud.aspx",
        consulta_page |-> root \o "/WFConsulta.aspx"]

\* ------------------------------------------------------------ id navigation

_CHECKPOINT_LAST2 == <<10, 30, 50, 70, 90>>

is_checkpoint_id(n) == \E k \in 1..Len(_CHECKPOINT_LAST2) : n % 100 = _CHECKPOINT_LAST2[k]

\* next_checkpoint_id with "<" for "<=": a checkpoint is sent to the one after it
next_checkpoint_strict(n) ==
    LET last2 == n % 100
        hits == {k \in 1..Len(_CHECKPOINT_LAST2) : last2 < _CHECKPOINT_LAST2[k]}
    IN IF hits /= {}
       THEN LET k == CHOOSE m \in hits : \A o \in hits : m <= o
            IN n + (_CHECKPOINT_LAST2[k] - last2)
       ELSE (n - last2) + 100 + _CHECKPOINT_LAST2[1]

\* next_checkpoint_id wrapping to the second checkpoint of the next hundred
next_checkpoint_wrap2(n) ==
    LET last2 == n % 100
        hits == {k \in 1..Len(_CHECKPOINT_LAST2) : last2 <= _CHECKPOINT_LAST2[k]}
    IN IF hits /= {}
       THEN LET k == CHOOSE m \in hits : \A o \in hits : m <= o
            IN n + (_CHECKPOINT_LAST2[k] - last2)
       ELSE (n - last2) + 100 + _CHECKPOINT_LAST2[2]

next_checkpoint_id(n) ==
    LET last2 == n % 100
        hits == {k \in 1..Len(_CHECKPOINT_LAST2) : last2 <= _CHECKPOINT_LAST2[k]}
    IN IF hits /= {}
       THEN LET k == CHOOSE m \in hits : \A o \in hits : m <= o
            IN n + (_CHECKPOINT_LAST2[k] - last2)
       ELSE (n - last2) + 100 + _CHECKPOINT_LAST2[1]

\* --------------------------------------------------------- trace entries

Call(name, id, url, ref, n, ok) ==
    [k |-> "call", name |-> name, id |-> id, url |-> url, ref |-> ref,
     n |-> n, ok |-> ok]

\* a call with what the caller read in its response: "valid" / "invalid" for
\* ValidaSolicitud, "token" / "other" for Encryptar, "none" when the call failed
WithAnswer(rec, a) ==
    [k |-> rec.k, name |-> rec.name, id |-> rec.id, url |-> rec.url, ref |-> rec.ref,
     n |-> rec.n, ok |-> rec.ok, answer |-> a]

\* res is the delivery outcome: "ok", "status" (a non-success status, which
\* requests.post returns without raising) or "neterr" (requests.post raises)
Event(name, id, res, data) ==
    [k |-> "event", name |-> name, id |-> id, res |-> res, data |-> data]

\* make_session_for_operator returned a session / session.close()
Open(op) == [k |-> "open", name |-> "open", id |-> op]
Close(op) == [k |-> "close", name |-> "close", id |-> op]

\* time.sleep(cfg.delay_ms / 1000.0)
Sleep(ms) == [k |-> "sleep", name |-> "sleep", id |-> ms]

\* the id field of a job-level event
NoId == 0 - 1

Calls(tr) == SelectSeq(tr, LAMBDA e : e.k = "call")
Events(tr) == SelectSeq(tr, LAMBDA e : e.k = "event")
EventsNamed(tr, name) == SelectSeq(tr, LAMBDA e : e.k = "event" /\ e.name = name)
CallsNamed(tr, name) == SelectSeq(tr, LAMBDA e : e.k = "call" /\ e.name = name)

\* -------------------------------------------------------- the environment

\* consecutive transport failures the site answers a call with, given the
\* anomalies b still allowed in this job
FailChoices(b) == IF b > 0 THEN 0..(MaxRetries + 1) ELSE {0}

\* outcome of one webhook POST
NotifyChoices(b) == IF b > 0 THEN {"ok", "status", "neterr"} ELSE {"ok"}

Used(f) == IF f > 0 THEN 1 ELSE 0

\* bodies of ValidaSolicitud; v says how many "valid" answers are still allowed
ValidaBodies(v) ==
    {JEnv(JBool(FALSE)), JEnv(JStr(<<"n", "o">>)), JEnv(NoneV)}
    \cup (IF v > 0 THEN {JEnv(JBool(TRUE)), JEnv(JStr(<<" ", "S", "i">>))} ELSE {})

GoodToken == <<"?", "e", "n", "c", "=", "a", "+", "/", "b", "=">>

\* bodies of Encryptar: a well-formed token, or (an anomaly) another shape
EncBodies(b) ==
    {JEnv(JStr(GoodToken))}
    \cup (IF b > 0 THEN {JEnv(JStr(<<"e", "r", "r">>)), JEnv(NoneV)} ELSE {})

IsAnomalousEnc(body) == body /= JEnv(JStr(GoodToken))

\* one record of CargarDatosSolicitud
Datos(code, text) == JObj([ESTADO |-> code, DESC_ESTADO |-> text])

\* bodies of CargarDatosSolicitud
DatosBodies ==
    { JEnv(JList(<<>>)),
      JEnv(JList(<<Datos(JNum(1), JStr(<<"A">>))>>)),
      JEnv(JList(<<Datos(JNum(2), JStr(<<"B", " ">>))>>)),
      JEnv(JList(<<Datos(JNum(2), NoneV)>>)) }

\* bodies of CargarDatosSolicitud as the full record of a range scan, whose
\* content the scan does not read
RecordBodies ==
    { JEnv(JList(<<Datos(JNum(1), JStr(<<"A">>))>>)), JEnv(JStr(<<"[", "]">>)) }

\* bodies of CargarDatosAuditoria
AuditBodies == {JEnv(JList(<<>>)), JEnv(JStr(<<"[", "1", "]">>)), JEnv(NoneV)}

\* ---------------------------------------------------- low-level HTTP calls

\* requests made by a retrying call that the site fails f times in a row
RetryAttempts(f, retries) == IF f <= retries THEN f + 1 ELSE retries + 1

\* _post_json_with_retries: the possible outcomes, given budget b
_post_json_with_retries(name, id, url, ref, retries, b) ==
    { [rec |-> Call(name, id, url, ref, RetryAttempts(f, retries), f <= retries),
       ok |-> f <= retries, used |-> Used(f)] : f \in FailChoices(b) }

\* _get_with_retries
_get_with_retries(name, id, url, ref, retries, b) ==
    { [rec |-> Call(name, id, url, ref, RetryAttempts(f, retries), f <= retries),
       ok |-> f <= retries, used |-> Used(f)] : f \in FailChoices(b) }

\* s.post(...); r.raise_for_status(): one request, no retry
session_post(name, id, url, ref, b) ==
    { [rec |-> Call(name, id, url, ref, 1, f = 0), ok |-> f = 0, used |-> Used(f)]
      : f \in IF b > 0 THEN {0, 1} ELSE {0} }

\* urllib.parse.quote(c, safe="=?&") of one character
QuoteChar(c) ==
    CASE c \in {"=", "?", "&"} -> c
      [] c = "+" -> "%2B"
      [] c = "/" -> "%2F"
      [] c = " " -> "%20"
      [] OTHER -> c

Quote(chars) == [k \in 1..Len(chars) |-> QuoteChar(chars[k])]

TokenPrefix == <<"?", "e", "n", "c", "=">>

IsToken(raw) == raw.t = "str" /\ StartsWith(raw.v, TokenPrefix)

\* ---------------------------------------------------- remote access client

\* validate_only: outcomes [calls, ok, valid, used, vused]; ok = no exception
validate_only(site, id, retries, b, v) ==
    UNION { IF c.ok
            THEN { [calls |-> <<WithAnswer(c.rec, IF ValidFromRaw(_unwrap_d(body))
                                                  THEN "valid" ELSE "invalid")>>,
                    ok |-> TRUE,
                    valid |-> ValidFromRaw(_unwrap_d(body)), used |-> c.used,
                    vused |-> IF ValidFromRaw(_unwrap_d(body)) THEN 1 ELSE 0]
                   : body \in ValidaBodies(v) }
            ELSE { [calls |-> <<WithAnswer(c.rec, "none")>>, ok |-> FALSE,
                    valid |-> FALSE, used |-> c.used, vused |-> 0] }
          : c \in _post_json_with_retries("validate", id,
                      site.base \o site.consulta_page \o "/ValidaSolicitud",
                      site.home_referer, retries, b) }

\* f"{site.base}{site.form_page}{enc_qs_encoded}", kept as the fixed head and
\* the quoted token's characters so that the URL can be split again
FormUrl(site, enc_qs) ==
    [head |-> site.base \o site.form_page, tail |-> Quote(enc_qs)]

UrlStr(url) == url.head \o Concat(url.tail)

\* form_url.rsplit("?", 1)[0]
RSplitQuery(url) ==
    LET marks == {k \in 1..Len(url.tail) : url.tail[k] = "?"} IN
    IF marks = {} THEN UrlStr(url)
    ELSE LET last == CHOOSE m \in marks : \A o \in marks : o <= m
         IN url.head \o Concat(SubSeq(url.tail, 1, last - 1))

\* prime_form: outcomes [calls, ok, form_url, used]
prime_form(site, id, enc_qs, retries, b) ==
    { [calls |-> <<c.rec>>, ok |-> c.ok, form_url |-> FormUrl(site, enc_qs),
       used |-> c.used]
      : c \in _get_with_retries("prime", id, UrlStr(FormUrl(site, enc_qs)), "",
                                 retries, b) }

\* the Encryptar call shared by load_valid_id_full and encrypt_for_id:
\* outcomes [calls, ok, raw, used]
Encryptar(site, id, retries, b) ==
    UNION { IF c.ok
            THEN { [calls |-> <<WithAnswer(c.rec, IF IsToken(_unwrap_d(body))
                                                  THEN "token" ELSE "other")>>,
                    ok |-> TRUE, raw |-> _unwrap_d(body),
                    used |-> c.used + (IF IsAnomalousEnc(body) THEN 1 ELSE 0)]
                   : body \in EncBodies(b - c.used) }
            ELSE { [calls |-> <<WithAnswer(c.rec, "none")>>, ok |-> FALSE,
                    raw |-> NoneV, used |-> c.used] }
          : c \in _post_json_with_retries("encrypt", id,
                      site.base \o site.consulta_page \o "/Encryptar",
                      site.home_referer, retries, b) }

\* encrypt_for_id: a payload without the token prefix raises
encrypt_for_id(site, id, retries, b) ==
    { [calls |-> e.calls, ok |-> e.ok /\ IsToken(e.raw), raw |-> e.raw, used |-> e.used]
      : e \in Encryptar(site, id, retries, b) }

\* load_valid_id_full (app.py): outcomes [calls, ok, full, used].  A payload
\* without the token prefix returns a warning record, no exception.
load_valid_id_full(site, id, retries, b) ==
    UNION {
      IF ~e.ok
      THEN { [calls |-> e.calls, ok |-> FALSE, full |-> NoneV, used |-> e.used] }
      ELSE IF ~IsToken(e.raw)
      THEN { [calls |-> e.calls, ok |-> TRUE,
              full |-> [warning |-> "Encryptar unexpected payload",
                        encryptar_raw |-> e.raw],
              used |-> e.used] }
      ELSE UNION {
        IF ~p.ok
        THEN { [calls |-> e.calls \o p.calls, ok |-> FALSE, full |-> NoneV,
                used |-> e.used + p.used] }
        ELSE UNION {
          IF ~c.ok
          THEN { [calls |-> e.calls \o p.calls \o <<c.rec>>, ok |-> FALSE,
                  full |-> NoneV, used |-> e.used + p.used + c.used] }
          ELSE { [calls |-> e.calls \o p.calls \o <<c.rec>>, ok |-> TRUE,
                  full |-> [enc_query |-> e.raw.v,
                            referer_used |-> UrlStr(p.form_url),
                            data |-> _unwrap_d(body)],
                  used |-> e.used + p.used + c.used]
                 : body \in RecordBodies }
          : c \in session_post("fetch", id,
                      site.base \o site.form_page \o "/CargarDatosSolicitud",
                      site.home_referer, b - e.used - p.used) }
        : p \in prime_form(site, id, e.raw.v, retries, b - e.used) }
      : e \in Encryptar(site, id, retries, b) }

\* the list load_auditoria returns for an unwrapped payload
AuditList(data) ==
    CASE data.t = "null" -> <<>>
      [] data.t = "list" -> data.v
      [] data.t = "str" ->
           IF JsonLoads(data.v).t = "list" THEN JsonLoads(data.v).v ELSE <<>>
      [] OTHER -> <<>>

\* load_auditoria: outcomes [calls, ok, audit, used]
load_auditoria(site, id, form_url, b) ==
    UNION {
      IF ~c.ok
      THEN { [calls |-> <<c.rec>>, ok |-> FALSE, audit |-> <<>>, used |-> c.used] }
      ELSE { [calls |-> <<c.rec>>, ok |-> TRUE, audit |-> AuditList(_unwrap_d(body)),
              used |-> c.used] : body \in AuditBodies }
      : c \in session_post("fetch_audit", id,
                  RSplitQuery(form_url) \o "/CargarDatosAuditoria",
                  UrlStr(form_url), b) }

\* cargar_datos_solicitud: outcomes [calls, ok, datos, used]; datos is the first
\* record of the list, or None
cargar_datos_solicitud(site, id, form_url, b) ==
    UNION {
      IF ~c.ok
      THEN { [calls |-> <<c.rec>>, ok |-> FALSE, datos |-> NoneV, used |-> c.used] }
      ELSE { [calls |-> <<c.rec>>, ok |-> TRUE,
              datos |-> LET data == _unwrap_d(body) IN
                        IF data.t = "list" /\ data.v /= <<>> THEN data.v[1] ELSE NoneV,
              used |-> c.used] : body \in DatosBodies }
      : c \in session_post("fetch_status", id,
                  RSplitQuery(form_url) \o "/CargarDatosSolicitud",
                  UrlStr(form_url), b) }

\* the chain without the test of the validate answer
ValidateThenEncryptAlways(site, id, retries, b, v) ==
    UNION {
      IF ~va.ok
      THEN { [calls |-> va.calls, ok |-> va.ok, valid |-> FALSE,
              form_url |-> FormUrl(site, <<>>), used |-> va.used, vused |-> 0] }
      ELSE UNION {
        IF ~e.ok
        THEN { [calls |-> va.calls \o e.calls, ok |-> FALSE, valid |-> TRUE,
                form_url |-> FormUrl(site, <<>>), used |-> va.used + e.used,
                vused |-> va.vused] }
        ELSE { [calls |-> va.calls \o e.calls \o p.calls, ok |-> p.ok, valid |-> TRUE,
                form_url |-> p.form_url, used |-> va.used + e.used + p.used,
                vused |-> va.vused]
               : p \in prime_form(site, id, e.raw.v, retries, b - va.used - e.used) }
        : e \in encrypt_for_id(site, id, retries, b - va.used) }
      : va \in validate_only(site, id, retries, b, v) }

\* validate, encrypt and prime, as get_audit_for_id and get_status_for_id
\* chain them: outcomes [calls, ok, valid, form_url, used, vused]
ValidateEncryptPrime(site, id, retries, b, v) ==
    UNION {
      IF ~(va.ok /\ va.valid)
      THEN { [calls |-> va.calls, ok |-> va.ok, valid |-> FALSE,
              form_url |-> FormUrl(site, <<>>), used |-> va.used, vused |-> 0] }
      ELSE UNION {
        IF ~e.ok
        THEN { [calls |-> va.calls \o e.calls, ok |-> FALSE, valid |-> TRUE,
                form_url |-> FormUrl(site, <<>>), used |-> va.used + e.used,
                vused |-> 1] }
        ELSE { [calls |-> va.calls \o e.calls \o p.calls, ok |-> p.ok, valid |-> TRUE,
                form_url |-> p.form_url, used |-> va.used + e.used + p.used,
                vused |-> 1]
               : p \in prime_form(site, id, e.raw.v, retries, b - va.used - e.used) }
        : e \in encrypt_for_id(site, id, retries, b - va.used) }
      : va \in validate_only(site, id, retries, b, v) }

\* get_audit_for_id with the caller's session: outcomes [calls, ok, res, used, vused]
get_audit_for_id(id, operator, retries, b, v) ==
    UNION {
      IF ~q.ok
      THEN { [calls |-> q.calls, ok |-> FALSE, res |-> NoneV, used |-> q.used,
              vused |-> q.vused] }
      ELSE IF ~q.valid
      THEN { [calls |-> q.calls, ok |-> TRUE,
              res |-> [id |-> id, valid |-> FALSE, referer_used |-> "",
                       audit |-> <<>>, operator |-> operator],
              used |-> q.used, vused |-> 0] }
      ELSE { [calls |-> q.calls \o a.calls, ok |-> a.ok,
              res |-> [id |-> id, valid |-> TRUE,
                       referer_used |-> UrlStr(q.form_url),
                       audit |-> a.audit, operator |-> operator],
              used |-> q.used + a.used, vused |-> 1]
             : a \in load_auditoria(get_site(operator), id, q.form_url, b - q.used) }
      : q \in ValidateEncryptPrime(get_site(operator), id, retries, b, v) }

\* datos.get(key) of the first record, None when there is no record
DatosGet(datos, key) ==
    IF datos.t = "obj" /\ DOMAIN datos.v /= {} THEN datos.v[key] ELSE NoneV

\* get_status_for_id with the caller's session: outcomes [calls, ok, live, used, vused]
get_status_for_id(id, operator, retries, b, v) ==
    UNION {
      IF ~q.ok
      THEN { [calls |-> q.calls, ok |-> FALSE, live |-> NoneV, form_url |-> q.form_url,
              used |-> q.used, vused |-> q.vused] }
      ELSE IF ~q.valid
      THEN { [calls |-> q.calls, ok |-> TRUE,
              live |-> [id |-> id, valid |-> FALSE, status_code |-> NoneV,
                        status_text |-> NoneV, referer_used |-> ""],
              form_url |-> q.form_url, used |-> q.used, vused |-> 0] }
      ELSE { [calls |-> q.calls \o d.calls, ok |-> d.ok,
              live |-> [id |-> id, valid |-> TRUE,
                        status_code |-> DatosGet(d.datos, "ESTADO"),
                        status_text |-> DatosGet(d.datos, "DESC_ESTADO"),
                        referer_used |-> UrlStr(q.form_url)],
              form_url |-> q.form_url, used |-> q.used + d.used, vused |-> 1]
             : d \in cargar_datos_solicitud(get_site(operator), id, q.form_url,
                                            b - q.used) }
      : q \in ValidateEncryptPrime(get_site(operator), id, retries, b, v) }

\* ------------------------------------------------------------- requests

\* ids near the checkpoints 10 and 30, where the traversal decisions differ
StartIds == {9, 10, 31}
EndIds == {10, 30, 31}

\* a linear scan tests every id of its range: its ranges are kept short
MaxLinearSpan == 2

Span(a, b) == IF a <= b THEN b - a ELSE a - b

NoItems == <<>>

ScanRequests ==
    { [kind |-> "scan", strategy |-> st, start_id |-> a, end_id |-> b,
       fetch_data_for_valid |-> fd, max_retries |-> r, operator |-> op,
       notify_invalid |-> FALSE, ids |-> NoItems, items |-> NoItems,
       delay_ms |-> d]
      : st \in {"linear", "checkpoint"}, a \in StartIds, b \in EndIds,
        fd \in BOOLEAN, r \in {0, MaxRetries}, op \in Operators,
        d \in {0, 200} }

\* the scans of Spec and ScanSpec run with delay_ms = 0; DelaySpec has both values
ScanIn == {c \in ScanRequests : /\ c.delay_ms = 0
                                /\ \/ c.strategy = "checkpoint"
                                   \/ Span(c.start_id, c.end_id) <= MaxLinearSpan}

ZeroStats ==
    [processed |-> 0, found |-> 0, skipped |-> 0, errors |-> 0,
     changed |-> 0, invalid |-> 0]

Bump(st, dp, df, ds, de) ==
    [st EXCEPT !.processed = @ + dp, !.found = @ + df, !.skipped = @ + ds,
               !.errors = @ + de]

\* the four counters a scan and an audit batch report
ScanStats(st) ==
    [processed |-> st.processed, found |-> st.found, skipped |-> st.skipped,
     errors |-> st.errors]

NoSessions == [op \in Operators |-> "none"]

Budget == MaxFaults - faults
ValidBudget == MaxValid - valids

\* _notify: one POST, every exception swallowed; outcomes [ev, used]
_notify(event, id, data, b) ==
    { [ev |-> Event(event, id, res, data), used |-> IF res = "ok" THEN 0 ELSE 1]
      : res \in NotifyChoices(b) }

\* ------------------------------------------------------------- range scan

\* scan_range: the request is accepted and run_scan is scheduled
scan_range ==
    /\ pc = "request"
    /\ cfg.kind = "scan"
    /\ pc' = "scan_start"
    /\ UNCHANGED <<cfg, i, j, idx, stats, s, sessions, trace, faults, valids, JOBS>>

\* run_scan up to the traversal: scan_started, get_site, the session.  A
\* failure of make_session_for_operator leaves s None and goes to the finally
\* block.
ScanStart ==
    /\ pc = "scan_start"
    /\ \E n \in _notify("scan_started", NoId,
                        [start |-> cfg.start_id, end |-> cfg.end_id,
                         strategy |-> cfg.strategy], Budget) :
       \E made \in IF Budget - n.used > 0 THEN BOOLEAN ELSE {TRUE} :
          /\ trace' = IF made THEN trace \o <<n.ev, Open(cfg.operator)>>
                      ELSE Append(trace, n.ev)
          /\ faults' = faults + n.used + (IF made THEN 0 ELSE 1)
          /\ s' = IF made THEN "open" ELSE "none"
          /\ pc' = IF ~made THEN "scan_finally"
                   ELSE IF cfg.strategy = "linear" THEN "linear" ELSE "cursor"
          /\ i' = cfg.start_id
    /\ UNCHANGED <<cfg, j, idx, stats, sessions, valids, JOBS>>

\* the valid-id branch of run_scan: the full fetch when requested, then the
\* item event; outcomes [entries, ok, used]
ItemFound(id, b) ==
    IF cfg.fetch_data_for_valid
    THEN UNION {
           IF ~r.ok
           THEN { [entries |-> r.calls, ok |-> FALSE, used |-> r.used] }
           ELSE { [entries |-> Append(r.calls, n.ev), ok |-> TRUE,
                   used |-> r.used + n.used]
                  : n \in _notify("item", id, r.full, b - r.used) }
           : r \in load_valid_id_full(get_site(cfg.operator), id, cfg.max_retries, b) }
    ELSE { [entries |-> <<n.ev>>, ok |-> TRUE, used |-> n.used]
           : n \in _notify("item", id, [valid |-> TRUE], b) }

\* `if cfg.delay_ms: time.sleep(cfg.delay_ms/1000.0)`
Delay == IF cfg.delay_ms /= 0 THEN <<Sleep(cfg.delay_ms)>> ELSE <<>>

LinearStepOf == IF cfg.start_id <= cfg.end_id THEN 1 ELSE -1

LinearInRange(n) == IF LinearStepOf > 0 THEN n <= cfg.end_id ELSE n >= cfg.end_id

\* one iteration of the linear loop, with the delay of its finally block
LinearStep ==
    /\ pc = "linear"
    /\ LinearInRange(i)
    /\ \E v \in validate_only(get_site(cfg.operator), i, cfg.max_retries,
                              Budget, ValidBudget) :
         IF ~v.ok
         THEN \E n \in _notify("item_error", i, "error", Budget - v.used) :
                /\ trace' = trace \o v.calls \o <<n.ev>> \o Delay
                /\ stats' = Bump(stats, 0, 0, 0, 1)
                /\ faults' = faults + v.used + n.used
                /\ valids' = valids
         ELSE IF v.valid /\ cfg.fetch_data_for_valid
         THEN \E f \in ItemFound(i, Budget - v.used) :
                IF f.ok
                THEN /\ trace' = trace \o v.calls \o f.entries \o Delay
                     /\ stats' = Bump(stats, 1, 1, 0, 0)
                     /\ faults' = faults + v.used + f.used
                     /\ valids' = valids + v.vused
                ELSE \E n \in _notify("item_error", i, "error",
                                      Budget - v.used - f.used) :
                     /\ trace' = trace \o v.calls \o f.entries \o <<n.ev>> \o Delay
                     /\ stats' = Bump(stats, 0, 0, 0, 1)
                     /\ faults' = faults + v.used + f.used + n.used
                     /\ valids' = valids + v.vused
         ELSE /\ trace' = trace \o v.calls \o Delay
              /\ stats' = Bump(stats, 1, 0, 1, 0)
              /\ faults' = faults + v.used
              /\ valids' = valids + v.vused
    /\ i' = i + LinearStepOf
    /\ UNCHANGED <<cfg, pc, j, idx, s, sessions, JOBS>>

\* the linear loop ends
LinearExit ==
    /\ pc = "linear"
    /\ ~LinearInRange(i)
    /\ pc' = "scan_finally"
    /\ UNCHANGED <<cfg, i, j, idx, stats, s, sessions, trace, faults, valids, JOBS>>

\* the boundary test of the checkpoint strategy
Crossed(n) ==
    \/ (cfg.start_id <= cfg.end_id /\ n > cfg.end_id)
    \/ (cfg.start_id > cfg.end_id /\ n < cfg.end_id)

\* the except branch of the checkpoint loop: id_str is str(i)
CursorExcept(entries, used, b) ==
    \E n \in _notify("item_error", i, "error", b) :
       /\ trace' = trace \o entries \o <<n.ev>> \o Delay
       /\ faults' = faults + used + n.used
       /\ i' = next_checkpoint_id(i + 1)
       /\ pc' = "cursor"

\* the checkpoint loop leaves at its boundary test
CursorExit ==
    /\ pc = "cursor"
    /\ Crossed(i)
    /\ pc' = "scan_finally"
    /\ UNCHANGED <<cfg, i, j, idx, stats, s, sessions, trace, faults, valids, JOBS>>

\* AT_CURSOR: validate i; invalid or failing moves to the next checkpoint,
\* valid starts the expansion at j = i
CursorStep ==
    /\ pc = "cursor"
    /\ ~Crossed(i)
    /\ i <= MaxCursor
    /\ \E v \in validate_only(get_site(cfg.operator), i, cfg.max_retries,
                              Budget, ValidBudget) :
         IF ~v.ok
         THEN /\ CursorExcept(v.calls, v.used, Budget - v.used)
              /\ stats' = Bump(stats, 0, 0, 0, 1)
              /\ UNCHANGED <<j, valids>>
         ELSE IF v.valid
         THEN /\ trace' = trace \o v.calls
              /\ stats' = Bump(stats, 1, 0, 0, 0)
              /\ faults' = faults + v.used
              /\ valids' = valids + 1
              /\ j' = i
              /\ pc' = "expand"
              /\ i' = i
         ELSE /\ trace' = trace \o v.calls \o Delay
              /\ stats' = Bump(stats, 1, 0, 1, 0)
              /\ faults' = faults + v.used
              /\ i' = next_checkpoint_id(i + 1)
              /\ pc' = "cursor"
              /\ UNCHANGED <<j, valids>>
    /\ UNCHANGED <<cfg, idx, s, sessions, JOBS>>

\* the cursor folded by the checkpoint period once it is above the window
Fold(n) == IF n > MaxCursor + 100 THEN n - 100 ELSE n

\* AT_CURSOR above the modelled window: the id is invalid and the cursor moves
\* to the next checkpoint; the counters and the trace are not followed there
CursorBeyond ==
    /\ pc = "cursor"
    /\ ~Crossed(i)
    /\ i > MaxCursor
    /\ i' = Fold(next_checkpoint_id(i + 1))
    /\ UNCHANGED <<cfg, pc, j, idx, stats, s, sessions, trace, faults, valids, JOBS>>

\* the end of one expansion iteration that did not break: j += 1, then the
\* boundary test on j
ExpandAdvance ==
    /\ j' = j + 1
    /\ IF Crossed(j + 1)
       THEN /\ i' = next_checkpoint_id(j + 1)
            /\ pc' = "cursor"
       ELSE /\ i' = i
            /\ pc' = "expand"

\* EXPANDING: one iteration of the inner loop, at j; an iteration that does
\* not break sleeps before j += 1, the break on the first invalid id skips it
ExpandStep ==
    /\ pc = "expand"
    /\ IF j = i
       THEN \E f \in ItemFound(j, Budget) :
              IF f.ok
              THEN /\ trace' = trace \o f.entries \o Delay
                   /\ stats' = Bump(stats, 0, 1, 0, 0)
                   /\ faults' = faults + f.used
                   /\ valids' = valids
                   /\ ExpandAdvance
              ELSE /\ CursorExcept(f.entries, f.used, Budget - f.used)
                   /\ stats' = Bump(stats, 0, 0, 0, 1)
                   /\ UNCHANGED <<j, valids>>
       ELSE \E v \in validate_only(get_site(cfg.operator), j, cfg.max_retries,
                                   Budget, ValidBudget) :
              IF ~v.ok
              THEN /\ CursorExcept(v.calls, v.used, Budget - v.used)
                   /\ stats' = Bump(stats, 0, 0, 0, 1)
                   /\ UNCHANGED <<j, valids>>
              ELSE IF v.valid
              THEN \E f \in ItemFound(j, Budget - v.used) :
                     IF f.ok
                     THEN /\ trace' = trace \o v.calls \o f.entries \o Delay
                          /\ stats' = Bump(stats, 1, 1, 0, 0)
                          /\ faults' = faults + v.used + f.used
                          /\ valids' = valids + 1
                          /\ ExpandAdvance
                     ELSE /\ CursorExcept(v.calls \o f.entries, v.used + f.used,
                                          Budget - v.used - f.used)
                          /\ stats' = Bump(stats, 1, 0, 0, 1)
                          /\ valids' = valids + 1
                          /\ UNCHANGED j
              ELSE /\ trace' = trace \o v.calls
                   /\ stats' = Bump(stats, 1, 0, 1, 0)
                   /\ faults' = faults + v.used
                   /\ i' = next_checkpoint_id(j)
                   /\ pc' = "cursor"
                   /\ UNCHANGED <<j, valids>>
    /\ UNCHANGED <<cfg, idx, s, sessions, JOBS>>

\* run_scan with scan_finished sent next to s.close(), only when a session
\* exists, instead of unconditionally in the finally block
ScanFinallyWhenSession ==
    /\ pc = "scan_finally"
    /\ IF s = "open"
       THEN \E n \in _notify("scan_finished", NoId, ScanStats(stats), Budget) :
              /\ trace' = trace \o <<n.ev, Close(cfg.operator)>>
              /\ faults' = faults + n.used
              /\ s' = "closed"
       ELSE UNCHANGED <<trace, faults, s>>
    /\ pc' = "done"
    /\ UNCHANGED <<cfg, i, j, idx, stats, sessions, valids, JOBS>>

\* the finally block of run_scan: scan_finished with the stats, then s.close()
ScanFinally ==
    /\ pc = "scan_finally"
    /\ \E n \in _notify("scan_finished", NoId, ScanStats(stats), Budget) :
         /\ trace' = IF s = "open" THEN trace \o <<n.ev, Close(cfg.operator)>>
                     ELSE Append(trace, n.ev)
         /\ faults' = faults + n.used
    /\ s' = IF s = "open" THEN "closed" ELSE s
    /\ pc' = "done"
    /\ UNCHANGED <<cfg, i, j, idx, stats, sessions, valids, JOBS>>

\* ------------------------------------------------------------ audit batch

AuditIds == {10, 11}

IdLists == UNION { [1..n -> AuditIds] : n \in 0..MaxItems }

AuditEnqueueIn ==
    { [kind |-> "audit", strategy |-> "none", start_id |-> NoId, end_id |-> NoId,
       fetch_data_for_valid |-> FALSE, max_retries |-> r, operator |-> op,
       notify_invalid |-> ni, ids |-> ids, items |-> NoItems]
      : r \in {0, MaxRetries}, op \in Operators, ni \in BOOLEAN, ids \in IdLists }

JobId == "job"

\* JOBS[job_id] = marker: the other entries of the dict are kept
SetJob(jobs, id, marker) ==
    [x \in DOMAIN jobs \cup {id} |-> IF x = id THEN marker ELSE jobs[x]]

\* audit_enqueue: the not-done marker, then the worker thread
audit_enqueue ==
    /\ pc = "request"
    /\ cfg.kind = "audit"
    /\ JOBS' = SetJob(JOBS, JobId, [done |-> FALSE, stats |-> ZeroStats])
    /\ pc' = "audit_start"
    /\ UNCHANGED <<cfg, i, j, idx, stats, s, sessions, trace, faults, valids>>

\* _run_audit_job up to its loop: the session, made outside any try, and the
\* audit_started post
AuditStart ==
    /\ pc = "audit_start"
    /\ \E made \in IF Budget > 0 THEN BOOLEAN ELSE {TRUE} :
         IF made
         THEN \E n \in _notify("audit_started", NoId, Len(cfg.ids), Budget) :
                /\ trace' = trace \o <<Open(cfg.operator), n.ev>>
                /\ faults' = faults + n.used
                /\ s' = "open"
                /\ pc' = "audit_loop"
         ELSE /\ faults' = faults + 1
              /\ pc' = "crashed"
              /\ UNCHANGED <<trace, s>>
    /\ idx' = 1
    /\ UNCHANGED <<cfg, i, j, stats, sessions, valids, JOBS>>

\* one iteration of the loop of _run_audit_job
AuditItem ==
    /\ pc = "audit_loop"
    /\ idx <= Len(cfg.ids)
    /\ \E r \in get_audit_for_id(cfg.ids[idx], cfg.operator, cfg.max_retries,
                                 Budget, ValidBudget) :
         /\ valids' = valids + r.vused
         /\ IF ~r.ok
            THEN \E n \in _notify("item_error", cfg.ids[idx], "error", Budget - r.used) :
                   /\ trace' = trace \o r.calls \o <<n.ev>>
                   /\ stats' = Bump(stats, 0, 0, 0, 1)
                   /\ faults' = faults + r.used + n.used
            ELSE IF r.res.valid \/ cfg.notify_invalid
            THEN \E n \in _notify("audit_item", cfg.ids[idx], r.res, Budget - r.used) :
                   /\ trace' = trace \o r.calls \o <<n.ev>>
                   /\ stats' = IF r.res.valid THEN Bump(stats, 1, 1, 0, 0)
                               ELSE Bump(stats, 1, 0, 1, 0)
                   /\ faults' = faults + r.used + n.used
            ELSE /\ trace' = trace \o r.calls
                 /\ stats' = Bump(stats, 1, 0, 1, 0)
                 /\ faults' = faults + r.used
    /\ idx' = idx + 1
    /\ UNCHANGED <<cfg, pc, i, j, s, sessions, JOBS>>

\* the finally block of _run_audit_job: audit_finished, sess.close(), the done
\* marker
AuditFinally ==
    /\ pc = "audit_loop"
    /\ idx > Len(cfg.ids)
    /\ \E n \in _notify("audit_finished", NoId, ScanStats(stats), Budget) :
         /\ trace' = trace \o <<n.ev, Close(cfg.operator)>>
         /\ faults' = faults + n.used
    /\ s' = "closed"
    /\ JOBS' = SetJob(JOBS, JobId, [done |-> TRUE, stats |-> stats])
    /\ pc' = "done"
    /\ UNCHANGED <<cfg, i, j, idx, stats, sessions, valids>>

\* --------------------------------------------------------- status refresh

StatusBaselines ==
    { [text |-> NoneV, code |-> NoneV],
      [text |-> JStr(<<" ", "B">>), code |-> JNum(1)],
      [text |-> NoneV, code |-> JNum(1)] }

StatusItem ==
    { [id |-> 10, operator |-> op, last_status_text |-> b.text,
       last_status_code |-> b.code] : op \in Operators, b \in StatusBaselines }

ItemLists == UNION { [1..n -> StatusItem] : n \in 0..MaxItems }

StatusRefreshIn ==
    { [kind |-> "status", strategy |-> "none", start_id |-> NoId, end_id |-> NoId,
       fetch_data_for_valid |-> FALSE, max_retries |-> r, operator |-> "afinia",
       notify_invalid |-> FALSE, ids |-> NoItems, items |-> items]
      : r \in {0, MaxRetries}, items \in ItemLists }

\* (x or "").strip() if x else None
TextOrNone(x) == IF Truthy(x) THEN JStr(Strip(x.v)) ELSE NoneV

DigitChar(d) ==
    CASE d = 0 -> "0" [] d = 1 -> "1" [] d = 2 -> "2" [] d = 3 -> "3" [] d = 4 -> "4"
      [] d = 5 -> "5" [] d = 6 -> "6" [] d = 7 -> "7" [] d = 8 -> "8" [] OTHER -> "9"

\* str(n) of a natural number
RECURSIVE NumStr(_)
NumStr(n) == IF n < 10 THEN <<DigitChar(n)>> ELSE NumStr(n \div 10) \o <<DigitChar(n % 10)>>

\* str(code): the decimal digits of a number, a string as it is
CodeStr(x) == IF x.t = "num" THEN NumStr(x.v) ELSE x.v

\* the change decision of status_refresh
ChangedNow(old_text, old_code, live_text, live_code) ==
    IF old_text /= NoneV /\ live_text /= NoneV
    THEN live_text.v /= old_text.v
    ELSE IF old_code /= NoneV /\ live_code /= NoneV
    THEN CodeStr(live_code) /= CodeStr(old_code)
    ELSE TRUE

\* filter_audit_since with cutoff_ms None (days_back is not set)
filter_audit_since(audit_list) == audit_list

\* status_refresh up to its loop: the status_refresh_started post
StatusBegin ==
    /\ pc = "request"
    /\ cfg.kind = "status"
    /\ \E n \in _notify("status_refresh_started", NoId, Len(cfg.items), Budget) :
         /\ trace' = Append(trace, n.ev)
         /\ faults' = faults + n.used
    /\ idx' = 1
    /\ pc' = "status_loop"
    /\ UNCHANGED <<cfg, i, j, stats, s, sessions, valids, JOBS>>

\* the outer except branch of the loop of status_refresh
StatusExcept(it, entries, used, b, dchanged) ==
    \E n \in _notify("status_item_error", it.id, "error", b) :
       /\ trace' = trace \o entries \o <<n.ev>>
       /\ faults' = faults + used + n.used
       /\ stats' = [stats EXCEPT !.processed = @ + 1, !.errors = @ + 1,
                                 !.changed = @ + dchanged]

\* a session made for every item
SessionPerItem(op) == <<Open(op)>>

\* sessions.get(op), or a new session stored under op
SessionEntries(op) == IF sessions[op] = "none" THEN <<Open(op)>> ELSE <<>>

\* one iteration of the loop of status_refresh
StatusStep ==
    /\ pc = "status_loop"
    /\ idx <= Len(cfg.items)
    /\ LET it == cfg.items[idx]
           op == it.operator
       IN \E made \in IF sessions[op] = "none" /\ Budget > 0 THEN BOOLEAN ELSE {TRUE} :
          IF ~made
          THEN /\ StatusExcept(it, <<>>, 1, Budget - 1, 0)
               /\ UNCHANGED <<sessions, valids>>
          ELSE
          /\ sessions' = [sessions EXCEPT ![op] = "open"]
          /\ \E r \in get_status_for_id(it.id, op, cfg.max_retries, Budget, ValidBudget) :
             /\ valids' = valids + r.vused
             /\ IF ~r.ok
                THEN StatusExcept(it, SessionEntries(op) \o r.calls, r.used,
                                  Budget - r.used, 0)
                ELSE IF ~r.live.valid
                THEN /\ trace' = trace \o SessionEntries(op) \o r.calls
                     /\ faults' = faults + r.used
                     /\ stats' = [stats EXCEPT !.processed = @ + 1, !.invalid = @ + 1]
                ELSE IF ~ChangedNow(TextOrNone(it.last_status_text), it.last_status_code,
                                    TextOrNone(r.live.status_text), r.live.status_code)
                THEN /\ trace' = trace \o SessionEntries(op) \o r.calls
                     /\ faults' = faults + r.used
                     /\ stats' = [stats EXCEPT !.processed = @ + 1]
                ELSE \E a \in load_auditoria(get_site(op), it.id, r.form_url,
                                             Budget - r.used) :
                     IF ~a.ok
                     THEN StatusExcept(it, SessionEntries(op) \o r.calls \o a.calls,
                                       r.used + a.used, Budget - r.used - a.used, 1)
                     ELSE \E n \in _notify("status_change", it.id,
                                     [old_status_text |-> TextOrNone(it.last_status_text),
                                      old_status_code |-> it.last_status_code,
                                      new_status_text |-> TextOrNone(r.live.status_text),
                                      new_status_code |-> r.live.status_code,
                                      audit |-> filter_audit_since(a.audit)],
                                     Budget - r.used - a.used) :
                          IF n.ev.res = "neterr"
                          THEN \* the handler's print(str(e)) reads a name that is
                               \* not bound there: the NameError reaches the outer
                               \* except branch
                               StatusExcept(it,
                                   SessionEntries(op) \o r.calls \o a.calls \o <<n.ev>>,
                                   r.used + a.used + n.used,
                                   Budget - r.used - a.used - n.used, 1)
                          ELSE /\ trace' = trace \o SessionEntries(op) \o r.calls
                                             \o a.calls \o <<n.ev>>
                               /\ faults' = faults + r.used + a.used + n.used
                               /\ stats' = [stats EXCEPT !.processed = @ + 1,
                                                         !.changed = @ + 1]
    /\ idx' = idx + 1
    /\ UNCHANGED <<cfg, pc, i, j, s, JOBS>>

\* the operators whose session was opened, in the order of opening
RECURSIVE OpenedOps(_)
OpenedOps(tr) ==
    IF tr = <<>> THEN <<>>
    ELSE IF Head(tr).k = "open" THEN <<Head(tr).id>> \o OpenedOps(Tail(tr))
    ELSE OpenedOps(Tail(tr))

\* the finally block of status_refresh and the summary it returns
StatusFinally ==
    /\ pc = "status_loop"
    /\ idx > Len(cfg.items)
    /\ \E n \in _notify("status_refresh_finished", NoId, stats, Budget) :
         /\ trace' = trace
                     \o [k \in 1..Len(OpenedOps(trace)) |-> Close(OpenedOps(trace)[k])]
                     \o <<n.ev>>
         /\ faults' = faults + n.used
    /\ sessions' = [op \in Operators |->
                      IF sessions[op] = "open" THEN "closed" ELSE sessions[op]]
    /\ pc' = "returned"
    /\ UNCHANGED <<cfg, i, j, idx, stats, s, valids, JOBS>>

\* the submission request has returned its response: scan_range and
\* audit_enqueue return once the worker is scheduled, status_refresh returns
\* after its finally block
Responded == IF cfg.kind = "status" THEN pc = "returned" ELSE pc /= "request"

\* ------------------------------------------------------- specifications

NoJobs == <<>>

\* the state when the request `cfg` drawn from `requests` arrives
InitWith(requests) ==
    /\ cfg \in requests
    /\ pc = "request"
    /\ i = 0
    /\ j = 0
    /\ idx = 0
    /\ stats = ZeroStats
    /\ s = "none"
    /\ sessions = NoSessions
    /\ trace = <<>>
    /\ faults = 0
    /\ valids = 0
    /\ JOBS = NoJobs

Init == InitWith(ScanIn \cup AuditEnqueueIn \cup StatusRefreshIn)

CheckpointNext ==
    \/ scan_range
    \/ ScanStart
    \/ CursorStep
    \/ CursorBeyond
    \/ CursorExit
    \/ ExpandStep
    \/ ScanFinally

ScanNext ==
    \/ CheckpointNext
    \/ LinearStep
    \/ LinearExit

AuditNext ==
    \/ audit_enqueue
    \/ AuditStart
    \/ AuditItem
    \/ AuditFinally

StatusNext ==
    \/ StatusBegin
    \/ StatusStep
    \/ StatusFinally

Next ==
    \/ ScanNext
    \/ AuditNext
    \/ StatusNext

\* one job of any kind
Spec == Init /\ [][Next]_vars

\* one range scan
InitScan == InitWith(ScanIn)
ScanSpec == InitScan /\ [][ScanNext]_vars

\* one checkpoint-strategy scan without full fetch, whose worker keeps running
\* (a scheduled background task is run until it returns)
InitCheckpoint ==
    InitWith({c \in ScanIn : /\ c.strategy = "checkpoint"
                             /\ ~c.fetch_data_for_valid
                             /\ c.operator = "afinia"
                             /\ c.max_retries = MaxRetries})
FairCheckpointSpec ==
    InitCheckpoint /\ [][CheckpointNext]_vars /\ WF_vars(CheckpointNext)

\* --------------------------------------------------- the pure functions

\* what a function call returned
Return(v) == [k |-> "return", name |-> cfg.fn, id |-> NoId, value |-> v]

\* status texts and codes of an item and of the live record
StatusTexts ==
    { NoneV, JStr(<<>>), JStr(<<" ">>), JStr(<<"A">>), JStr(<<" ", "A">>), JStr(<<"B">>) }
ItemCodes == {NoneV, JNum(0), JNum(1), JNum(2)}
LiveCodes == ItemCodes \cup {JStr(<<"1">>)}

ChangedNowCalls ==
    { [kind |-> "call", fn |-> "changed_now", old_text |-> ot, old_code |-> oc,
       live_text |-> lt, live_code |-> lc]
      : ot \in StatusTexts, oc \in ItemCodes, lt \in StatusTexts, lc \in LiveCodes }

\* the change decision of status_refresh for one valid item
changed_now ==
    /\ pc = "request"
    /\ cfg.kind = "call"
    /\ cfg.fn = "changed_now"
    /\ trace' = <<Return(ChangedNow(TextOrNone(cfg.old_text), cfg.old_code,
                                    TextOrNone(cfg.live_text), cfg.live_code))>>
    /\ pc' = "result"
    /\ UNCHANGED <<cfg, i, j, idx, stats, s, sessions, faults, valids, JOBS>>

\* arguments of next_checkpoint_id: every integer up to MaxArg in absolute
\* value, and the ids of the documented examples
MaxArg == 120
CheckpointArgs == ((0 - MaxArg)..MaxArg) \cup {40000, 40010, 40095, 40099}

NextCheckpointCalls ==
    { [kind |-> "call", fn |-> "next_checkpoint_id", arg |-> n] : n \in CheckpointArgs }

\* one call of next_checkpoint_id
NextCheckpointCall ==
    /\ pc = "request"
    /\ cfg.kind = "call"
    /\ cfg.fn = "next_checkpoint_id"
    /\ trace' = <<Return(next_checkpoint_id(cfg.arg))>>
    /\ pc' = "result"
    /\ UNCHANGED <<cfg, i, j, idx, stats, s, sessions, faults, valids, JOBS>>

NextCheckpointTwiceCalls ==
    { [kind |-> "call", fn |-> "next_checkpoint_id twice", arg |-> n] : n \in CheckpointArgs }

\* next_checkpoint_id applied to an id and then to its own result
NextCheckpointTwice ==
    /\ pc = "request"
    /\ cfg.kind = "call"
    /\ cfg.fn = "next_checkpoint_id twice"
    /\ LET first == next_checkpoint_id(cfg.arg)
       IN trace' = <<Return(first), Return(next_checkpoint_id(first))>>
    /\ pc' = "result"
    /\ UNCHANGED <<cfg, i, j, idx, stats, s, sessions, faults, valids, JOBS>>

\* payloads of a ValidaSolicitud response: strings in and out of the lists,
\* with case and padding, and values that are not strings
ValidaStrings ==
    { <<"t", "r", "u", "e">>, <<" ", "T", "r", "u", "e", " ">>, <<"1">>, <<"s", "i">>,
      <<"S", "Í">>, <<"O", "K">>, <<"y", "e", "s">>, <<"y">>,
      <<"f", "a", "l", "s", "e">>, <<"0">>, <<"N", "o">>, <<"n", "u", "l", "l">>,
      <<>>, <<" ">>, <<"x">>, <<"n", "o", "n", "e">>, <<"2">> }

ValidaPayloads ==
    {NoneV, JBool(TRUE), JBool(FALSE), JNum(0), JNum(1), JList(<<>>),
     JList(<<JNum(1)>>), JObj(<<>>)}
    \cup { JStr(chars) : chars \in ValidaStrings }

\* the JSON bodies: the payload in the d envelope, or a body without d
ValidateCalls ==
    { [kind |-> "call", fn |-> "validate_only", body |-> b]
      : b \in { JEnv(x) : x \in ValidaPayloads } \cup {JObj(<<>>)} }

\* validate_only from the decoded response on: raw and valid
ValidateDecision ==
    /\ pc = "request"
    /\ cfg.kind = "call"
    /\ cfg.fn = "validate_only"
    /\ LET raw == _unwrap_d(cfg.body)
       IN trace' = <<Return([valid |-> ValidFromRaw(raw), valida_raw |-> raw])>>
    /\ pc' = "result"
    /\ UNCHANGED <<cfg, i, j, idx, stats, s, sessions, faults, valids, JOBS>>

\* d payloads that are strings: encoded objects and arrays, padded or not,
\* text that only looks like JSON, and plain text
EncodedPayloads ==
    { <<"{", "\"", "x", "\"", ":", "1", "}">>, <<"{", "\"", "d", "\"", ":", "1", "}">>,
      <<"[", "]">>, <<" ", "[", "1", "]", " ">>, <<"{", "}">>,
      <<"[", "x", "]">>, <<"[", "1">>, <<"a">>, <<>> }

\* d payloads that are already decoded
StructuredPayloads ==
    { JObj([x |-> JNum(1)]), JObj(<<>>), JList(<<>>), JList(<<JNum(1)>>),
      JEnv(JNum(1)), JEnv(JStr(<<"[", "]">>)), NoneV, JNum(1), JBool(TRUE) }

\* responses: with the d envelope, and without it
UnwrapCalls ==
    { [kind |-> "call", fn |-> "_unwrap_d", body |-> b]
      : b \in { JEnv(JStr(chars)) : chars \in EncodedPayloads }
              \cup { JEnv(x) : x \in StructuredPayloads }
              \cup { JObj([x |-> JNum(1)]), JObj(<<>>), JList(<<JNum(1)>>),
                     JStr(<<"[", "]">>), JNum(1), NoneV } }

\* one call of _unwrap_d
UnwrapCall ==
    /\ pc = "request"
    /\ cfg.kind = "call"
    /\ cfg.fn = "_unwrap_d"
    /\ trace' = <<Return(_unwrap_d(cfg.body))>>
    /\ pc' = "result"
    /\ UNCHANGED <<cfg, i, j, idx, stats, s, sessions, faults, valids, JOBS>>

\* operator tags a caller can pass: the two of the Literal and others (the
\* annotation is not enforced at run time)
OperatorTags == Operators \cup {"AIRE", "epm", ""}

GetSiteCalls ==
    { [kind |-> "call", fn |-> "get_site", op |-> op] : op \in OperatorTags }

\* one call of get_site
GetSiteCall ==
    /\ pc = "request"
    /\ cfg.kind = "call"
    /\ cfg.fn = "get_site"
    /\ trace' = <<Return(get_site(cfg.op))>>
    /\ pc' = "result"
    /\ UNCHANGED <<cfg, i, j, idx, stats, s, sessions, faults, valids, JOBS>>

InitFunction ==
    InitWith(ChangedNowCalls \cup NextCheckpointCalls \cup NextCheckpointTwiceCalls
             \cup ValidateCalls \cup UnwrapCalls \cup GetSiteCalls)

FunctionNext ==
    \/ changed_now
    \/ NextCheckpointCall
    \/ NextCheckpointTwice
    \/ ValidateDecision
    \/ UnwrapCall
    \/ GetSiteCall

\* one call of one pure function
FunctionSpec == InitFunction /\ [][FunctionNext]_vars

\* one status refresh without retries, of items that have a status text
InitStatus ==
    InitWith({c \in StatusRefreshIn :
                /\ c.max_retries = 0
                /\ \A n \in 1..Len(c.items) : c.items[n].last_status_text /= NoneV})
StatusSpec == InitStatus /\ [][StatusNext]_vars

\* one job of any kind without retries: a range scan of Air-e with full fetch,
\* an audit batch or a status refresh of at most one id
InitChain ==
    InitWith({c \in ScanIn \cup AuditEnqueueIn \cup StatusRefreshIn :
                /\ c.max_retries = 0
                /\ c.kind = "scan" => c.fetch_data_for_valid /\ c.operator = "aire"
                /\ c.kind = "audit" => Len(c.ids) <= 1 /\ ~c.notify_invalid
                /\ c.kind = "status" =>
                      /\ Len(c.items) <= 1
                      /\ \A n \in 1..Len(c.items) : c.items[n].last_status_text /= NoneV})
ChainSpec == InitChain /\ [][Next]_vars

\* one range scan of Air-e without retries, with delay_ms 0 or 200
InitDelay ==
    InitWith({c \in ScanRequests :
                /\ c.max_retries = 0
                /\ c.operator = "aire"
                /\ \/ c.strategy = "checkpoint"
                   \/ Span(c.start_id, c.end_id) <= MaxLinearSpan})
DelaySpec == InitDelay /\ [][ScanNext]_vars

\* ------------------------------------------- the public client functions

\* get_audit_for_id and get_status_for_id called on their own: with a session
\* of the caller (supplied) or with session=None
ClientCalls ==
    { [kind |-> "client", fn |-> fn, id |-> id, operator |-> op, max_retries |-> r,
       supplied |-> sp]
      : fn \in {"get_audit_for_id", "get_status_for_id"}, id \in {10, 31},
        op \in Operators, r \in {0, MaxRetries}, sp \in BOOLEAN }

\* the session closed whoever created it
CloseAlways(own, sess) == "closed"

\* `finally: if own: session.close()`: the state of the session afterwards
CloseIfOwn(own, sess) == IF own THEN "closed" ELSE sess

\* the caller creates the session it is going to supply
CallerSession ==
    /\ pc = "request"
    /\ cfg.supplied
    /\ s = "none"
    /\ s' = "open"
    /\ trace' = Append(trace, Open(cfg.operator))
    /\ pc' = "client_call"
    /\ UNCHANGED <<cfg, i, j, idx, stats, sessions, faults, valids, JOBS>>

\* the whole of a client function around its body: own is set when no session
\* was supplied, the body runs in the try block, and the finally block runs on
\* the three exits (valid id, invalid id, exception)
ClientCall(outcomes) ==
    /\ \/ pc = "client_call"
       \/ pc = "request" /\ ~cfg.supplied
    /\ LET own == (s = "none")
           sess == IF own THEN "open" ELSE s
       IN \E r \in outcomes :
            LET exit == IF ~r.ok THEN "raised"
                        ELSE IF r.valid THEN "valid" ELSE "invalid"
                after == CloseIfOwn(own, sess)
            IN /\ s' = after
               /\ trace' = trace \o (IF own THEN <<Open(cfg.operator)>> ELSE <<>>)
                                 \o r.calls
                                 \o (IF after = "closed" THEN <<Close(cfg.operator)>>
                                     ELSE <<>>)
                                 \o <<Return([own |-> own, exit |-> exit])>>
               /\ faults' = faults + r.used
               /\ valids' = valids + r.vused
    /\ pc' = "result"
    /\ UNCHANGED <<cfg, i, j, idx, stats, sessions, JOBS>>

GetAuditForId ==
    /\ cfg.fn = "get_audit_for_id"
    /\ ClientCall({ [calls |-> r.calls, ok |-> r.ok, valid |-> r.ok /\ r.res.valid,
                     used |-> r.used, vused |-> r.vused]
                    : r \in get_audit_for_id(cfg.id, cfg.operator, cfg.max_retries,
                                             Budget, ValidBudget) })

GetStatusForId ==
    /\ cfg.fn = "get_status_for_id"
    /\ ClientCall({ [calls |-> r.calls, ok |-> r.ok, valid |-> r.ok /\ r.live.valid,
                     used |-> r.used, vused |-> r.vused]
                    : r \in get_status_for_id(cfg.id, cfg.operator, cfg.max_retries,
                                              Budget, ValidBudget) })

InitClient == InitWith(ClientCalls)

ClientNext ==
    \/ CallerSession
    \/ GetAuditForId
    \/ GetStatusForId

\* one call of get_audit_for_id or get_status_for_id
ClientSpec == InitClient /\ [][ClientNext]_vars

\* ------------------------------------------------------ concurrent jobs

\* Two requests in flight at once.  In this specification cfg, pc, idx and
\* stats are functions of the job id (the locals of each worker) and JOBS is
\* the one dict they share; a step of a worker is one statement on JOBS or one
\* item of its loop, whose remote calls are abstracted to their effect on the
\* counters.  uuid4 job ids are distinct.
JobIds == {JobId, "job2"}

JobKinds == {"scan", "audit", "status"}

JobRequests == { [kind |-> k, count |-> n] : k \in JobKinds, n \in 0..MaxItems }

\* what one item does to the counters: found, skipped, or an error
ItemOutcomes == { <<1, 1, 0, 0>>, <<1, 0, 1, 0>>, <<0, 0, 0, 1>> }

\* scan_range: a job id, run_scan scheduled, the response
ScanRangeOf(id) ==
    /\ pc[id] = "request"
    /\ cfg[id].kind = "scan"
    /\ pc' = [pc EXCEPT ![id] = "scheduled"]
    /\ UNCHANGED <<cfg, i, j, idx, stats, s, sessions, trace, faults, valids, JOBS>>

\* audit_enqueue: a job id, the not-done marker, the thread, the response
AuditEnqueueOf(id) ==
    /\ pc[id] = "request"
    /\ cfg[id].kind = "audit"
    /\ JOBS' = SetJob(JOBS, id, [done |-> FALSE, stats |-> ZeroStats])
    /\ pc' = [pc EXCEPT ![id] = "scheduled"]
    /\ UNCHANGED <<cfg, i, j, idx, stats, s, sessions, trace, faults, valids>>

\* status_refresh: no job id, no marker; the loop runs in the request
StatusRefreshOf(id) ==
    /\ pc[id] = "request"
    /\ cfg[id].kind = "status"
    /\ pc' = [pc EXCEPT ![id] = "running"]
    /\ UNCHANGED <<cfg, i, j, idx, stats, s, sessions, trace, faults, valids, JOBS>>

\* the worker starts: run_scan reaches its loop; _run_audit_job makes its
\* session outside any try, and a failure there ends the thread
WorkerStart(id) ==
    /\ pc[id] = "scheduled"
    /\ \E made \in IF cfg[id].kind = "audit" THEN BOOLEAN ELSE {TRUE} :
         pc' = [pc EXCEPT ![id] = IF made THEN "running" ELSE "crashed"]
    /\ UNCHANGED <<cfg, i, j, idx, stats, s, sessions, trace, faults, valids, JOBS>>

\* one item of the loop of any of the three bodies
WorkerItem(id) ==
    /\ pc[id] = "running"
    /\ idx[id] < cfg[id].count
    /\ \E o \in ItemOutcomes :
         stats' = [stats EXCEPT ![id] = Bump(stats[id], o[1], o[2], o[3], o[4])]
    /\ idx' = [idx EXCEPT ![id] = idx[id] + 1]
    /\ UNCHANGED <<cfg, pc, i, j, s, sessions, trace, faults, valids, JOBS>>

\* the finally blocks: the finished event, and for an audit batch only the done
\* marker with the counters
WorkerFinally(id) ==
    /\ pc[id] = "running"
    /\ idx[id] = cfg[id].count
    /\ JOBS' = IF cfg[id].kind = "audit"
               THEN SetJob(JOBS, id, [done |-> TRUE, stats |-> stats[id]])
               ELSE JOBS
    /\ pc' = [pc EXCEPT ![id] = "done"]
    /\ UNCHANGED <<cfg, i, j, idx, stats, s, sessions, trace, faults, valids>>

InitRegistry ==
    /\ cfg \in [JobIds -> JobRequests]
    /\ pc = [id \in JobIds |-> "request"]
    /\ idx = [id \in JobIds |-> 0]
    /\ stats = [id \in JobIds |-> ZeroStats]
    /\ i = 0
    /\ j = 0
    /\ s = "none"
    /\ sessions = NoSessions
    /\ trace = <<>>
    /\ faults = 0
    /\ valids = 0
    /\ JOBS = NoJobs

RegistryNext ==
    \E id \in JobIds :
       \/ ScanRangeOf(id)
       \/ AuditEnqueueOf(id)
       \/ StatusRefreshOf(id)
       \/ WorkerStart(id)
       \/ WorkerItem(id)
       \/ WorkerFinally(id)

\* two jobs of any kinds, interleaved in every way
RegistrySpec == InitRegistry /\ [][RegistryNext]_vars

\* ------------------------------------------------------------- claims

IsScan == cfg.kind = "scan"
IsCheckpointScan == cfg.kind = "scan" /\ cfg.strategy = "checkpoint"
Ascending == cfg.start_id <= cfg.end_id

IsCall(e, name) == e.k = "call" /\ e.name = name
IsEvent(e, name) == e.k = "event" /\ e.name = name
IsErrorEvent(e) == e.k = "event" /\ e.name \in {"item_error", "status_item_error"}
IsFetch(e) == e.k = "call" /\ e.name \in {"fetch", "fetch_audit", "fetch_status"}

\* the ids of the validate calls, in the order of the calls
ValidatedIds == [k \in 1..Len(CallsNamed(trace, "validate")) |->
                   CallsNamed(trace, "validate")[k].id]

Positions(name) == {k \in 1..Len(trace) : trace[k].k = "event" /\ trace[k].name = name}

\* C1: the stats a scan_finished or audit_finished event reports satisfy
\* processed = found + skipped + errors
C1_ReportedStatsBalance ==
    \A k \in 1..Len(trace) :
       (IsEvent(trace[k], "scan_finished") \/ IsEvent(trace[k], "audit_finished"))
       => trace[k].data.processed
            = trace[k].data.found + trace[k].data.skipped + trace[k].data.errors

\* C2: every checkpoint-strategy scan, ascending or descending, eventually
\* reaches DONE
C2_CheckpointScanFinishes == <>(IsCheckpointScan => pc = "done")

\* C3: in a range scan scan_started is the first thing that happens, before
\* any remote call; scan_finished is not emitted before the scan body exits,
\* and once it has exited scan_finished was emitted exactly once, after every
\* call and every item and item_error event, and is followed only by the close
\* of the session, if one was made
C3_ScanLifecycle ==
    IsScan =>
      /\ trace /= <<>> =>
           /\ IsEvent(trace[1], "scan_started")
           /\ Cardinality(Positions("scan_started")) = 1
      /\ pc /= "done" => Positions("scan_finished") = {} /\ s /= "closed"
      /\ pc = "done" =>
           /\ Cardinality(Positions("scan_finished")) = 1
           /\ \A f \in Positions("scan_finished") :
                /\ \A k \in 1..Len(trace) :
                     (trace[k].k \in {"call", "open"} \/ IsEvent(trace[k], "item")
                        \/ IsEvent(trace[k], "item_error")) => k < f
                /\ IF \E k \in 1..Len(trace) : trace[k].k = "open"
                   THEN /\ f = Len(trace) - 1
                        /\ trace[Len(trace)].k = "close"
                        /\ s = "closed"
                   ELSE f = Len(trace) /\ s = "none"

C3_Witness ==
    /\ IsScan
    /\ pc = "done"
    /\ s = "closed"
    /\ Positions("item") /= {}
    /\ Positions("item_error") /= {}

NoValidNoFailure ==
    /\ valids = 0
    /\ \A k \in 1..Len(trace) : trace[k].k = "call" => trace[k].ok

CheckpointsIn(lo, hi) == {n \in lo..hi : is_checkpoint_id(n)}

Increasing(seq) == \A k \in 1..(Len(seq) - 1) : seq[k] < seq[k + 1]

Range(seq) == {seq[k] : k \in 1..Len(seq)}

\* C4 as stated: a finished checkpoint scan of a range without valid ids and
\* without failures validated exactly the checkpoints of the range, in
\* increasing order, with found = 0 and skipped = the number of them
C4_ValidatesExactlyCheckpoints ==
    (IsCheckpointScan /\ pc = "done" /\ s = "closed" /\ NoValidNoFailure) =>
      /\ Range(ValidatedIds) = CheckpointsIn(cfg.start_id, cfg.end_id)
      /\ Increasing(ValidatedIds)
      /\ stats.found = 0
      /\ stats.skipped = Len(ValidatedIds)

\* C4 amended: such a scan validates start_id itself, checkpoint or not, and
\* after it only checkpoints, each the first checkpoint above the id before
\* it; found stays 0 and every id validated is counted as skipped; when the
\* scan finishes the ids validated are start_id and exactly the checkpoints
\* above start_id and up to end_id
C4_StartThenCheckpoints ==
    (IsCheckpointScan /\ NoValidNoFailure /\ pc \in {"cursor", "scan_finally", "done"}
       /\ s /= "none") =>
      /\ ValidatedIds /= <<>> => ValidatedIds[1] = cfg.start_id
      /\ \A k \in 2..Len(ValidatedIds) :
           /\ is_checkpoint_id(ValidatedIds[k])
           /\ ValidatedIds[k - 1] < ValidatedIds[k]
           /\ CheckpointsIn(ValidatedIds[k - 1] + 1, ValidatedIds[k] - 1) = {}
      /\ stats.found = 0
      /\ stats.skipped = Len(ValidatedIds)
      /\ pc = "done" =>
           Range(ValidatedIds)
             = {cfg.start_id} \cup CheckpointsIn(cfg.start_id + 1, cfg.end_id)

C4_Witness ==
    /\ IsCheckpointScan
    /\ pc = "done"
    /\ s = "closed"
    /\ NoValidNoFailure
    /\ ~is_checkpoint_id(cfg.start_id)
    /\ Len(ValidatedIds) = 3

\* C5: in a checkpoint scan no id is validated twice, and no id gets more
\* than one item event
C5_EachIdValidatedOnce ==
    IsCheckpointScan =>
      /\ \A a, b \in 1..Len(ValidatedIds) : ValidatedIds[a] = ValidatedIds[b] => a = b
      /\ \A a, b \in Positions("item") : trace[a].id = trace[b].id => a = b

\* C6: when an expansion stops at an id j that validates as invalid, the next
\* cursor is the first checkpoint strictly after j
C6_CursorAfterInvalid ==
    [][(pc = "expand" /\ stats'.skipped = stats.skipped + 1) =>
         /\ i' > j
         /\ is_checkpoint_id(i')
         /\ CheckpointsIn(j + 1, i' - 1) = {}]_vars

\* C7: in a range scan every validate call that failed on all its attempts is
\* followed by exactly one item_error event, which carries the id of that
\* call, and errors counts one per such event
C7_OneErrorForTheFailedId ==
    IsScan =>
      /\ \A k \in 1..Len(trace) :
           (IsCall(trace[k], "validate") /\ ~trace[k].ok) =>
             /\ trace[k].n = cfg.max_retries + 1
             /\ k < Len(trace)
             /\ IsEvent(trace[k + 1], "item_error")
             /\ trace[k + 1].id = trace[k].id
             /\ (k + 2 <= Len(trace) => ~IsEvent(trace[k + 2], "item_error"))
      /\ pc \in {"linear", "cursor", "scan_finally", "done"} =>
           stats.errors = Cardinality(Positions("item_error"))

\* C8: a remote call propagates its failure only after retries + 1 attempts
C8_FailureOnlyAfterRetries ==
    \A k \in 1..Len(trace) :
       (trace[k].k = "call" /\ ~trace[k].ok) => trace[k].n = cfg.max_retries + 1

\* the position of the last prime call for the id before position k, 0 if none
LastPrime(k) ==
    LET ps == {p \in 1..(k - 1) : IsCall(trace[p], "prime") /\ trace[p].id = trace[k].id}
    IN IF ps = {} THEN 0 ELSE CHOOSE p \in ps : \A q \in ps : q <= p

\* C9: every fetch request carries as Referer the URL of the prime call made
\* for the same id
C9_FetchRefererIsPrimedUrl ==
    \A k \in 1..Len(trace) :
       IsFetch(trace[k]) =>
         /\ LastPrime(k) /= 0
         /\ trace[k].ref = trace[LastPrime(k)].url

\* C10: a notification that failed is never followed by an error report for
\* the item it was about, and the job's errors counter counts only failed
\* remote work
C10_FailedNotificationHasNoEffect ==
    \A k \in 1..(Len(trace) - 1) :
       (trace[k].k = "event" /\ trace[k].res /= "ok" /\ ~IsErrorEvent(trace[k])) =>
         ~(IsErrorEvent(trace[k + 1]) /\ trace[k + 1].id = trace[k].id)

IsLinearScan == cfg.kind = "scan" /\ cfg.strategy = "linear"
IsAudit == cfg.kind = "audit"
IsStatus == cfg.kind = "status"

ErrorEvents == Positions("item_error") \cup Positions("status_item_error")

\* the ids of a linear range, whatever its direction
RangeIds ==
    IF cfg.start_id <= cfg.end_id THEN cfg.start_id..cfg.end_id
    ELSE cfg.end_id..cfg.start_id

\* every id or item of a job that has left its loop was handled
AllItemsHandled ==
    /\ (IsLinearScan /\ pc \in {"scan_finally", "done"} /\ s /= "none") =>
         RangeIds \subseteq Range(ValidatedIds)
    /\ (IsAudit /\ pc = "done") => ValidatedIds = cfg.ids
    /\ (IsStatus /\ pc = "returned") =>
         /\ stats.processed = Len(cfg.items)
         /\ Len(ValidatedIds) + Cardinality(ErrorEvents) >= Len(cfg.items)

\* C11: in every job kind a remote call that fails while an item is processed
\* is followed by one error event carrying the id of that item, errors counts
\* these events, and the job goes on: once it has left its loop every id or
\* item was handled
C11_ItemFailureIsReportedAndJobGoesOn ==
    /\ \A k \in 1..Len(trace) :
         (trace[k].k = "call" /\ ~trace[k].ok) =>
           /\ k < Len(trace)
           /\ IsErrorEvent(trace[k + 1])
           /\ trace[k + 1].id = trace[k].id
    /\ pc \notin {"expand"} => stats.errors = Cardinality(ErrorEvents)
    /\ AllItemsHandled

\* the same, for the jobs other than a checkpoint-strategy scan
C11_OutsideCheckpointScans == IsCheckpointScan \/ C11_ItemFailureIsReportedAndJobGoesOn

\* C12: in a status refresh the changed counter equals the number of
\* status_change events emitted so far
C12_ChangedCountsStatusChanges ==
    IsStatus => stats.changed = Cardinality(Positions("status_change"))

IsResultOf(fn) == pc = "result" /\ cfg.fn = fn

\* a status text is present: a string that is not empty after trimming
Present(x) == x.t = "str" /\ Strip(x.v) /= <<>>

\* C13 as stated: with both texts present (non-empty after trimming) the item
\* changed iff the trimmed texts differ; else with both codes present it
\* changed iff their string forms differ; otherwise it changed
C13_ChangeDecision ==
    IsResultOf("changed_now") =>
      trace[1].value =
        (IF Present(cfg.old_text) /\ Present(cfg.live_text)
         THEN Strip(cfg.live_text.v) /= Strip(cfg.old_text.v)
         ELSE IF cfg.old_code /= NoneV /\ cfg.live_code /= NoneV
         THEN CodeStr(cfg.live_code) /= CodeStr(cfg.old_code)
         ELSE TRUE)

Completed == pc \in {"done", "returned"}

\* C14: a job of any kind that has completed has a done marker with its final
\* stats in JOBS under its job id
C14_CompletedJobIsRecorded ==
    Completed =>
      /\ JobId \in DOMAIN JOBS
      /\ JOBS[JobId].done
      /\ JOBS[JobId].stats = stats

\* the registry entry of job id in the state reached by the step
EntryStep(id) ==
    /\ pc'[id] /= "request" => id \in DOMAIN JOBS'
    /\ pc[id] = "scheduled" => id \in DOMAIN JOBS /\ ~JOBS[id].done
    /\ id \in DOMAIN JOBS => id \in DOMAIN JOBS'
    /\ (id \in DOMAIN JOBS /\ JOBS[id].done) => JOBS'[id] = JOBS[id]
    /\ pc'[id] = "done" => JOBS'[id] = [done |-> TRUE, stats |-> stats'[id]]

\* C15: in every interleaving of two jobs each job has a registry entry from
\* its submission on, not-done before its worker starts, which is never
\* removed, becomes done once and then never changes, and holds the job's own
\* final stats once the job is done
C15_EntryOfEachJob == [][\A id \in JobIds : EntryStep(id)]_vars

\* the same for audit batches only
C15_EntryOfEachAudit ==
    [][\A id \in JobIds : cfg[id].kind = "audit" => EntryStep(id)]_vars

\* C16: for each job kind the submission returns without any item of the job
\* having been processed inside the request: as long as the response has not
\* been returned no remote call was made for an item and no counter moved
C16_ResponseDoesNotWaitForItems ==
    ~Responded => /\ Len(Calls(trace)) = 0
                  /\ stats = ZeroStats

\* the same for range scans and audit batches only
C16_BackgroundKinds == IsStatus \/ C16_ResponseDoesNotWaitForItems

CheckpointResidues == {10, 30, 50, 70, 90}

\* C17: next_checkpoint_id(i) is a checkpoint, is not below i, and no
\* checkpoint lies in [i, result); 40000 -> 40010, 40010 -> 40010,
\* 40095 -> 40110, 40099 -> 40110
C17_SmallestCheckpointNotBelow ==
    IsResultOf("next_checkpoint_id") =>
      LET r == trace[1].value
      IN /\ r % 100 \in CheckpointResidues
         /\ r >= cfg.arg
         /\ \A m \in cfg.arg..(r - 1) : m % 100 \notin CheckpointResidues
         /\ cfg.arg = 40000 => r = 40010
         /\ cfg.arg = 40010 => r = 40010
         /\ cfg.arg = 40095 => r = 40110
         /\ cfg.arg = 40099 => r = 40110

\* a call that wrapped to the next hundred
C17_Witness ==
    /\ IsResultOf("next_checkpoint_id")
    /\ cfg.arg = 40095
    /\ trace[1].value = 40110

\* C18: next_checkpoint_id is idempotent: applied to its own result it
\* returns that result
C18_NextCheckpointIdempotent ==
    IsResultOf("next_checkpoint_id twice") => trace[2].value = trace[1].value

\* two applications to an id that is not a checkpoint
C18_Witness ==
    /\ IsResultOf("next_checkpoint_id twice")
    /\ cfg.arg = 99
    /\ trace[1].value = 110
    /\ trace[2].value = 110

ValidWords ==
    { <<"t", "r", "u", "e">>, <<"1">>, <<"s", "i">>, <<"s", "í">>, <<"o", "k">>,
      <<"y", "e", "s">>, <<"y">> }
InvalidWords ==
    { <<"f", "a", "l", "s", "e">>, <<"0">>, <<"n", "o">>, <<"n", "u", "l", "l">>, <<>> }

\* C19 as stated: a string in the first list (trimmed, any case) is valid, one
\* in the second list is invalid, null or an absent payload is invalid, and
\* every other payload, a string outside both lists included, is valid exactly
\* when it is truthy
C19_ValidateDecision ==
    IsResultOf("validate_only") =>
      LET raw == trace[1].value.valida_raw
          word == Lower(Strip(raw.v))
      IN trace[1].value.valid =
           (IF raw.t = "str" /\ word \in ValidWords THEN TRUE
            ELSE IF raw.t = "str" /\ word \in InvalidWords THEN FALSE
            ELSE IF raw = NoneV THEN FALSE
            ELSE Truthy(raw))

\* the same without the strings outside both lists
C19_ListedStringsAndOtherValues ==
    IsResultOf("validate_only") =>
      LET raw == trace[1].value.valida_raw
      IN (raw.t = "str" => Lower(Strip(raw.v)) \in ValidWords \cup InvalidWords)
         => C19_ValidateDecision

\* JSON texts of objects and arrays with the values they encode
Encodings ==
    { <<<<"{", "\"", "x", "\"", ":", "1", "}">>, JObj([x |-> JNum(1)])>>,
      <<<<"{", "\"", "d", "\"", ":", "1", "}">>, JEnv(JNum(1))>>,
      <<<<"[", "]">>, JList(<<>>)>>,
      <<<<" ", "[", "1", "]", " ">>, JList(<<JNum(1)>>)>>,
      <<<<"{", "}">>, JObj(<<>>)>> }

\* C20: _unwrap_d removes one level of the d envelope: an object or array
\* encoded as a string in d yields the decoded value, a d that is already
\* structured yields that value, a response without d is returned unchanged,
\* and a result that itself has a d envelope is not unwrapped again
C20_UnwrapsOneLevel ==
    IsResultOf("_unwrap_d") =>
      LET body == cfg.body
          r == trace[1].value
      IN /\ body.t /= "env" => r = body
         /\ (body.t = "env" /\ body.v.t /= "str") => r = body.v
         /\ \A e \in Encodings : body = JEnv(JStr(e[1])) => r = e[2]

\* an encoded object that itself has a d field was decoded and left as it is
C20_Witness ==
    /\ IsResultOf("_unwrap_d")
    /\ cfg.body = JEnv(JStr(<<"{", "\"", "d", "\"", ":", "1", "}">>))
    /\ trace[1].value = JEnv(JNum(1))

\* C21: the site lookup fails with UnknownOperator for every tag other than
\* the known ones and never returns a site descriptor for such a tag
C21_UnknownOperatorFails ==
    (IsResultOf("get_site") /\ cfg.op \notin Operators) =>
      /\ "base" \notin DOMAIN trace[1].value
      /\ trace[1].value = [error |-> "UnknownOperator"]

\* the lookup for the two known tags
C21_KnownOperators ==
    (IsResultOf("get_site") /\ cfg.op \in Operators) =>
      trace[1].value.home_referer =
        (IF cfg.op = "aire" THEN "https://servicios.air-e.com/CREG174/"
         ELSE "https://servicios.energiacaribemar.co/Autogeneracion/")

\* positions of the trace holding entry e
At(e) == {k \in 1..Len(trace) : trace[k] = e}

\* the validate calls sent to the site of operator op
ValidateCallsTo(op) ==
    {k \in 1..Len(trace) :
       /\ IsCall(trace[k], "validate")
       /\ trace[k].ref = get_site(op).home_referer}

\* C22: in a status refresh at most one session is created per operator, only
\* for operators among the items; every call for an item of that operator is
\* made after that session was created and before it is closed; and once the
\* refresh has returned every session created has been closed, once
C22_OneSessionPerOperator ==
    IsStatus =>
      \A op \in Operators :
         /\ Cardinality(At(Open(op))) <= 1
         /\ At(Open(op)) /= {} =>
               \E n \in 1..Len(cfg.items) : cfg.items[n].operator = op
         /\ \A k \in ValidateCallsTo(op) :
               /\ \E o \in At(Open(op)) : o < k
               /\ \A c \in At(Close(op)) : k < c
         /\ Cardinality(At(Close(op))) <= Cardinality(At(Open(op)))
         /\ pc = "returned" => Cardinality(At(Close(op))) = Cardinality(At(Open(op)))

\* two items of one operator, the second of which failed, were served by one
\* session, which was closed
C22_Witness ==
    /\ IsStatus
    /\ pc = "returned"
    /\ Len(cfg.items) = 2
    /\ cfg.items[1].operator = "aire"
    /\ cfg.items[2].operator = "aire"
    /\ Cardinality(ValidateCallsTo("aire")) = 2
    /\ stats.errors = 1
    /\ Cardinality(At(Open("aire"))) = 1
    /\ Cardinality(At(Close("aire"))) = 1

\* the position of the last remote call before position k, 0 when there is none
PrevCall(k) ==
    LET before == {m \in 1..(k - 1) : trace[m].k = "call"}
    IN IF before = {} THEN 0 ELSE CHOOSE m \in before : \A o \in before : o <= m

\* the call before position k is the call `name` for the same id and succeeded
Follows(k, name) ==
    /\ PrevCall(k) /= 0
    /\ trace[PrevCall(k)].name = name
    /\ trace[PrevCall(k)].id = trace[k].id
    /\ trace[PrevCall(k)].ok

\* C23: the calls for an id come in the order validate, encrypt, prime, fetch:
\* an encrypt call directly follows a validate call for the same id that
\* answered valid, a prime call directly follows an encrypt call for the same
\* id that returned a well-formed token, and a fetch directly follows a prime
\* call for the same id that succeeded, or another fetch for that id that did
\* (a status refresh fetches the status and then the audit trail); so nothing
\* follows an invalid answer
C23_CallOrderPerId ==
    \A k \in 1..Len(trace) :
       /\ IsCall(trace[k], "encrypt") =>
             Follows(k, "validate") /\ trace[PrevCall(k)].answer = "valid"
       /\ IsCall(trace[k], "prime") =>
             Follows(k, "encrypt") /\ trace[PrevCall(k)].answer = "token"
       /\ IsFetch(trace[k]) =>
             \/ Follows(k, "prime")
             \/ /\ PrevCall(k) /= 0
                /\ IsFetch(trace[PrevCall(k)])
                /\ trace[PrevCall(k)].id = trace[k].id
                /\ trace[PrevCall(k)].ok

\* an invalid id, then a valid id carried through to its fetch
C23_Witness ==
    \E a, b \in 1..Len(trace) :
       /\ a < b
       /\ IsCall(trace[a], "validate")
       /\ trace[a].answer = "invalid"
       /\ IsCall(trace[a + 1], "validate")
       /\ trace[a + 1].id /= trace[a].id
       /\ IsFetch(trace[b])
       /\ trace[b].ok

\* the step is the validate call of the expansion id j, which failed
ExpansionValidateFailed ==
    /\ pc = "expand"
    /\ j > i
    /\ Len(trace') > Len(trace)
    /\ IsCall(trace'[Len(trace) + 1], "validate")
    /\ trace'[Len(trace) + 1].id = j
    /\ ~trace'[Len(trace) + 1].ok

\* C24: when the validate call of an expansion id j fails, one error is
\* counted, one item_error event with id j is emitted, the expansion ends and
\* the cursor becomes next_checkpoint_id(j)
C24_ExpansionFailureEndsAtJ ==
    [][ExpansionValidateFailed =>
         /\ stats'.errors = stats.errors + 1
         /\ Len(trace') = Len(trace) + 2
         /\ IsEvent(trace'[Len(trace) + 2], "item_error")
         /\ trace'[Len(trace) + 2].id = j
         /\ pc' = "cursor"
         /\ i' = next_checkpoint_id(j)]_vars

\* what the claim and the code agree on: one error, one event, the expansion ends
C24_OneErrorAndExpansionEnds ==
    [][ExpansionValidateFailed =>
         /\ stats'.errors = stats.errors + 1
         /\ Len(trace') = Len(trace) + 2
         /\ IsEvent(trace'[Len(trace) + 2], "item_error")
         /\ pc' = "cursor"]_vars

\* positions of the Encryptar calls of a scan that answered without the
\* token prefix
MalformedEncrypts ==
    {k \in 1..Len(trace) :
       /\ IsCall(trace[k], "encrypt")
       /\ trace[k].ok
       /\ trace[k].answer = "other"}

\* C25: in a range scan with full fetch, an Encryptar payload without the
\* token prefix makes the id a per-item failure: the call is not repeated, no
\* prime or fetch follows, the id is reported by item_error and not by item,
\* and it is not counted in found
C25_MalformedTokenIsItemFailure ==
    IsScan =>
      \A k \in MalformedEncrypts :
         /\ k < Len(trace)
         /\ trace[k + 1].k /= "call"
         /\ IsEvent(trace[k + 1], "item_error")
         /\ trace[k + 1].id = trace[k].id

\* what the claim and the code agree on: no call follows for that id
C25_NoCallAfterMalformedToken ==
    IsScan =>
      \A k \in MalformedEncrypts :
         /\ k < Len(trace)
         /\ trace[k + 1].k /= "call"

\* the position of the first validate call after position k, Len(trace) + 1
\* when there is none
NextValidate(k) ==
    LET after == {m \in (k + 1)..Len(trace) : IsCall(trace[m], "validate")}
    IN IF after = {} THEN Len(trace) + 1 ELSE CHOOSE m \in after : \A o \in after : m <= o

\* the entries that belong to the validate call at position k
EntriesOf(k) == (k + 1)..(NextValidate(k) - 1)

\* the validate calls that answered valid and whose id has been dealt with
ValidAnswersDone ==
    {k \in 1..Len(trace) :
       /\ IsCall(trace[k], "validate")
       /\ trace[k].answer = "valid"
       /\ (NextValidate(k) <= Len(trace) \/ pc \in {"scan_finally", "done"})}

\* C26: in a range scan, under both strategies and with or without full
\* fetch, an id that validated as valid and whose processing did not fail is
\* reported by exactly one item event, and found at completion is the number
\* of item events
C26_ValidIdIsFoundAndReported ==
    IsScan =>
      /\ \A k \in ValidAnswersDone :
            \/ \E m \in EntriesOf(k) : IsEvent(trace[m], "item_error")
            \/ Cardinality({m \in EntriesOf(k) :
                              IsEvent(trace[m], "item") /\ trace[m].id = trace[k].id}) = 1
      /\ pc = "done" => stats.found = Cardinality(Positions("item"))

\* the same without linear scans that do not fetch
C26_ExceptLinearWithoutFetch ==
    (IsLinearScan /\ ~cfg.fetch_data_for_valid) \/ C26_ValidIdIsFoundAndReported

\* the ids a scan has tested: one validate_only per id
IdsTested == {k \in 1..Len(trace) : IsCall(trace[k], "validate")}

Delays == {k \in 1..Len(trace) : trace[k].k = "sleep"}

\* C27: a range scan with delay_ms > 0 has performed, when it completes, as
\* many delays as it tested ids: one after every per-id operation, whether
\* the id was found, skipped or failed
C27_OneDelayPerIdTested ==
    (IsScan /\ cfg.delay_ms > 0 /\ pc = "done") =>
        /\ \A k \in IdsTested : \E m \in EntriesOf(k) : trace[m].k = "sleep"
        /\ Cardinality(Delays) = Cardinality(IdsTested)

\* the validate calls of an expansion that answered invalid: the id follows
\* the id of the item reported just before
ExpansionBreaks ==
    {k \in IdsTested :
       /\ trace[k].answer = "invalid"
       /\ k > 2
       /\ trace[k - 1].k = "sleep"
       /\ IsEvent(trace[k - 2], "item")
       /\ trace[k - 2].id = trace[k].id - 1}

\* C27, holding part: a linear scan delays once per id tested; a checkpoint
\* scan delays once per id tested except the invalid id that ends an expansion;
\* a scan with delay_ms = 0 never delays
C27_DelaysExceptExpansionBreak ==
    IsScan =>
      /\ cfg.delay_ms = 0 => Delays = {}
      /\ (cfg.delay_ms > 0 /\ pc = "done") =>
            Cardinality(Delays) + (IF IsLinearScan THEN 0 ELSE Cardinality(ExpansionBreaks))
              = Cardinality(IdsTested)

\* the ids of the calls made to the remote site
IdsSent == {trace[k].id : k \in {m \in 1..Len(trace) : trace[m].k = "call"}}

InRequestedRange(n) ==
    IF cfg.start_id <= cfg.end_id
    THEN cfg.start_id <= n /\ n <= cfg.end_id
    ELSE cfg.end_id <= n /\ n <= cfg.start_id

\* C28: every id a range scan sends to the remote site lies in the inclusive
\* range between start_id and end_id, for ascending and descending requests
\* and under both strategies
C28_IdsSentInRange == IsScan => \A n \in IdsSent : InRequestedRange(n)

\* C28, holding part: linear scans in both directions and ascending
\* checkpoint scans stay in the requested range
C28_ExceptDescendingCheckpoint ==
    (IsCheckpointScan /\ cfg.start_id > cfg.end_id) \/ C28_IdsSentInRange

\* C29: when a status refresh has completed, processed is the number of
\* items of the request and every item was counted in at most one of changed,
\* invalid and errors, so changed + invalid + errors <= processed
C29_StatusCountersPartition ==
    (IsStatus /\ pc = "returned") =>
        /\ stats.processed = Len(cfg.items)
        /\ stats.changed + stats.invalid + stats.errors <= stats.processed

\* C29, holding part: processed is the number of items, an item is never
\* both invalid and failed, and changed alone never exceeds processed
C29_ProcessedAndDisjointInvalidErrors ==
    (IsStatus /\ pc = "returned") =>
        /\ stats.processed = Len(cfg.items)
        /\ stats.invalid + stats.errors <= stats.processed
        /\ stats.changed <= stats.processed

IsClient == cfg.kind = "client"

\* what the client function returned, once it has
ClientResult == trace[Len(trace)].value

\* C30: when get_audit_for_id or get_status_for_id has exited (valid id,
\* invalid id or exception), a session supplied by the caller is still open
\* and was not closed by the function, and a session the function created
\* itself is closed
C30_ClosesOnlyOwnSession ==
    (IsClient /\ pc = "result") =>
        /\ cfg.supplied =>
              /\ ~ClientResult.own
              /\ s = "open"
              /\ \A k \in 1..Len(trace) : trace[k].k /= "close"
        /\ ~cfg.supplied =>
              /\ ClientResult.own
              /\ s = "closed"
              /\ Cardinality({k \in 1..Len(trace) : trace[k].k = "open"}) = 1
              /\ trace[Len(trace) - 1] = Close(cfg.operator)

\* a supplied session survived an exception of get_status_for_id
C30_Witness ==
    /\ IsClient
    /\ pc = "result"
    /\ cfg.fn = "get_status_for_id"
    /\ cfg.supplied
    /\ ClientResult.exit = "raised"
    /\ s = "open"

====
